---- MODULE Spec2Model ----
(***************************************************************************)
(* Workspace / Analysis reconciliation core of tightrope.                  *)
(*                                                                         *)
(*   POST /api/workspaces/create        src/src/pages/api/workspaces/create.ts      *)
(*   GET  /api/workspaces/{id}/status   src/src/pages/api/workspaces/[id]/status.ts *)
(*   GET  /api/workspaces/{id}          src/src/pages/api/workspaces/[id]/status.ts *)
(*                                                                         *)
(*   workspace page (poller)             src/src/pages/workspaces/[id].tsx           *)
(*                                                                         *)
(* Every handler is split at the awaits at which another request can run:  *)
(* a store read, a store write and an analyzer HTTP exchange are one step  *)
(* each.  A JSON string is its own text.  Every value that is no string is  *)
(* written between angle brackets: Null is SQL NULL / JSON null, Undefined  *)
(* a missing key, Num("30") the number 30, JsTrue and JsFalse the booleans, *)
(* Arr("a,b") the array ["a","b"], Doc("summary:A") the JSON document with  *)
(* that content.  A Date is the text of the clock reading.                  *)
(***************************************************************************)
EXTENDS Naturals, Sequences, FiniteSets, Bags, TLC

\* ---------------------------------------------------------------- bounds
\* readings the server clock goes through
MaxClock == 2
\* interval timers the page registers over its life
MaxTimers == 2
\* workspaces the store comes to hold
MaxWorkspaces == 2
\* interval callbacks awaiting their status response at the same time
MaxInFlight == 2
\* fetchWorkspace runs awaiting their response at the same time
MaxLoads == 2

\* ------------------------------------------------------------ JS values
\* A JS string is written as its text, in ASCII, one unit for each UTF-16 code
\* unit: a printable ASCII character, TAB, LF, FF and CR are written as they
\* are; every other code unit is written \uXXXX (four lower-case hexadecimal
\* digits); a backslash is written \\ and a less-than sign \<.  No string
\* therefore begins with a bare <, and a value that is no string is written
\* between angle brackets.
Null == "<null>"
Undefined == "<undefined>"
JsTrue == "<true>"
JsFalse == "<false>"
\* the JSON number with this decimal text
Num(text) == "<number " \o text \o ">"
\* a JSON document (an object), its content an opaque text
Doc(text) == "<object " \o text \o ">"
\* what a step evaluates to when it throws a TypeError
TypeError == "<TypeError>"

\* the units of a text: a character, or an escape (\uXXXX, or \ and the
\* character escaped)
RECURSIVE Units(_)
Units(t) ==
    IF t = "" THEN << >>
    ELSE LET n == IF SubSeq(t, 1, 1) # "\\" \/ Len(t) = 1 THEN 1
                  ELSE IF SubSeq(t, 2, 2) = "u" /\ Len(t) >= 6 THEN 6
                  ELSE 2
         IN <<SubSeq(t, 1, n)>> \o Units(SubSeq(t, n + 1, Len(t)))
\* the text of a sequence of units or of texts
RECURSIVE Join(_)
Join(ts) == IF ts = << >> THEN "" ELSE Head(ts) \o Join(Tail(ts))

\* an element of an array, as written inside the array: a comma of the
\* element is written \,
Element(e) ==
    Join([i \in DOMAIN Units(e) |-> IF Units(e)[i] = "," THEN "\\," ELSE Units(e)[i]])
\* the array of these strings: each element is followed by a comma
Arr(es) == "<array " \o Join([i \in DOMAIN es |-> Element(es[i]) \o ","]) \o ">"

\* typeof v === 'string'
IsString(v) == v = "" \/ SubSeq(v, 1, 1) # "<"
\* typeof v === 'number'
IsNumber(v) == Len(v) > 9 /\ SubSeq(v, 1, 8) = "<number " /\ SubSeq(v, Len(v), Len(v)) = ">"

\* x ?? y
Nullish(v) == v \in {Null, Undefined}
Coalesce(a, b) == IF Nullish(a) THEN b ELSE a

\* JS truthiness of a JSON scalar or document: `if (x)`, `!x`, `x || y`
Falsy == {Null, Undefined, "", Num("0"), JsFalse}
Truthy(v) == v \notin Falsy
OrElse(a, b) == IF Truthy(a) THEN a ELSE b

\* Array.isArray / typeof v === 'object' of a value that is neither null nor
\* an array
IsArray(v) == Len(v) >= 8 /\ SubSeq(v, 1, 7) = "<array " /\ SubSeq(v, Len(v), Len(v)) = ">"
IsDocument(v) ==
    Len(v) >= 9 /\ SubSeq(v, 1, 8) = "<object " /\ SubSeq(v, Len(v), Len(v)) = ">"

\* the elements of an array, read from its units: each ends at a bare comma
\* (cur: the units of the element being read)
RECURSIVE Split(_, _)
Split(us, cur) ==
    IF us = << >> THEN << >>
    ELSE IF Head(us) = "," THEN <<cur>> \o Split(Tail(us), "")
    ELSE Split(Tail(us), cur \o (IF Head(us) = "\\," THEN "," ELSE Head(us)))
Items(v) == Split(Units(SubSeq(v, 8, Len(v) - 1)), "")
\* Array.prototype.join(',')
RECURSIVE JoinWithCommas(_)
JoinWithCommas(ts) ==
    IF ts = << >> THEN ""
    ELSE IF Len(ts) = 1 THEN ts[1]
    ELSE ts[1] \o "," \o JoinWithCommas(Tail(ts))

\* `${x}` inside a template literal: String(x); an array of strings is joined
\* with commas, a document prints as [object Object]
Template(v) ==
    IF v = Undefined THEN "undefined"
    ELSE IF v = Null THEN "null"
    ELSE IF v = JsTrue THEN "true"
    ELSE IF v = JsFalse THEN "false"
    ELSE IF IsNumber(v) THEN SubSeq(v, 9, Len(v) - 1)
    ELSE IF IsArray(v) THEN JoinWithCommas(Items(v))
    ELSE IF IsDocument(v) THEN "[object Object]"
    ELSE v

\* ------------------------------------------------------------- analyzer
AnalyzerBase == "http://0.0.0.0:8000"
AnalyzeUrl == AnalyzerBase \o "/api/analyze"
StatusUrlOf(ext) == AnalyzerBase \o "/api/status/" \o Template(ext)
ResultUrlOf(ext) == AnalyzerBase \o "/api/result/" \o Template(ext)

\* a URL stored as the analyzer sent it
KeepUrl(u) == IF Truthy(u) THEN u ELSE Null
\* String.prototype.startsWith('http')
StartsWithHttp(s) == Len(s) >= 4 /\ SubSeq(s, 1, 4) = "http"

\* status_url / result_url normalisation of create; a truthy value that is no
\* string has no startsWith: the call throws
NormalizeUrl(u) ==
    IF Truthy(u)
    THEN IF ~IsString(u) THEN TypeError
         ELSE IF StartsWithHttp(u) THEN u ELSE AnalyzerBase \o u
    ELSE Null

\* the white space and line terminators String.prototype.trim strips: TAB, LF,
\* VT, FF, CR, space, U+00A0, U+1680, U+2000..U+200A, U+2028, U+2029, U+202F,
\* U+205F, U+3000, U+FEFF
WhiteSpace ==
    { "\t", "\n", "\\u000b", "\f", "\r", " ", "\\u00a0", "\\u1680",
      "\\u2000", "\\u2001", "\\u2002", "\\u2003", "\\u2004", "\\u2005",
      "\\u2006", "\\u2007", "\\u2008", "\\u2009", "\\u200a",
      "\\u2028", "\\u2029", "\\u202f", "\\u205f", "\\u3000", "\\ufeff" }
\* the units left when the white space at one end is dropped
RECURSIVE DropLeft(_)
DropLeft(us) ==
    IF us # << >> /\ Head(us) \in WhiteSpace THEN DropLeft(Tail(us)) ELSE us
RECURSIVE DropRight(_)
DropRight(us) ==
    IF us # << >> /\ us[Len(us)] \in WhiteSpace
    THEN DropRight(SubSeq(us, 1, Len(us) - 1))
    ELSE us
\* String.prototype.trimStart / trimEnd / trim
TrimLeft(s) == Join(DropLeft(Units(s)))
TrimRight(s) == Join(DropRight(Units(s)))
Trim(s) == TrimRight(TrimLeft(s))
\* the units b are found in the units a
Within(a, b) ==
    \E i \in 1..(Len(a) + 1) :
        i + Len(b) - 1 <= Len(a) /\ SubSeq(a, i, i + Len(b) - 1) = b
\* String.prototype.includes
Includes(s, sub) == Within(Units(s), Units(sub))
\* Array.prototype.includes
ArrayIncludes(v, e) == \E i \in DOMAIN Items(v) : Items(v)[i] = e

\* --------------------------------------------------------------- inputs
Emails == {"alice@x", "bob@x"}
Sessions == Emails \cup {Null}
Methods == {"POST", "GET"}
Names == {"demo", " \t\\u00a0", Num("5"), Doc("summary:A"), Undefined}
Repos ==
    { " https://github.com/x/y\\u3000", "https://gitlab.com/x/y", Num("5"), Doc("summary:A"),
      Arr(<<"github.com">>), Arr(<<"a,github.com">>), Undefined }
\* create requests: every name and every repository of a signed-in user (a
\* blank name ends with U+00A0, the repository with U+3000; the name <b> is a
\* string), and the requests that fail an earlier check whatever the later
\* fields hold
CreateRequests ==
    [ method : {"POST"}, session : {"alice@x"}, name : Names,
      github_repository : {" https://github.com/x/y\\u3000"} ]
    \cup [ method : {"POST"}, session : {"alice@x"}, name : {"demo"},
           github_repository : Repos ]
    \cup [ method : {"POST"}, session : {"alice@x"}, name : {" \t\\u00a0"},
           github_repository : {Undefined} ]
    \cup [ method : {"POST"}, session : {"alice@x"}, name : {"\\<b>"},
           github_repository : {"https://gitlab.com/x/y"} ]
    \cup [ method : {"POST"}, session : {"bob@x", Null}, name : {"demo"},
           github_repository : {" https://github.com/x/y\\u3000"} ]
    \cup [ method : {"POST"}, session : {Null}, name : {Undefined},
           github_repository : {Undefined} ]
    \cup [ method : {"GET"}, session : {"alice@x"}, name : {"demo"},
           github_repository : {" https://github.com/x/y\\u3000"} ]
    \cup [ method : {"GET"}, session : {Null}, name : {Undefined},
           github_repository : {Undefined} ]

\* the workspace_id workspace.create hands out (cuid) to the n-th row
WorkspaceId(n) == "ws" \o ToString(n)
WorkspaceIds == { WorkspaceId(n) : n \in 1..MaxWorkspaces }
\* req.query.id: the id of a workspace, two ids no workspace has (ws0 and
\* <ws1>), a repeated parameter, or none
RequestIds == {"ws1", "ws0", "\\<ws1>", Arr(<<"ws1", "ws1">>), Undefined}
\* requests by id: every id of a signed-in user, and the ids that pass the id
\* check from the other user and from nobody
IdRequests ==
    [id : RequestIds, session : {"alice@x"}]
    \cup [id : {"ws1", "ws0"}, session : {"bob@x"}]
    \cup [id : {"ws1", Undefined}, session : {Null}]

\* what POST /api/analyze can answer: a JSON object, or a body that is no JSON
NonJson == [nonjson |-> TRUE]
AnalyzeBodies ==
    { [workspace_id |-> "ext1", status |-> "queued",
       status_url |-> Undefined, result_url |-> Undefined],
      [workspace_id |-> "ext1", status |-> Undefined,
       status_url |-> "/api/status/ext1", result_url |-> "/api/result/ext1"],
      [workspace_id |-> Undefined, status |-> Undefined,
       status_url |-> "http://0.0.0.0:8000/api/status/ext1", result_url |-> Undefined],
      [workspace_id |-> "ext1", status |-> "queued",
       status_url |-> Null, result_url |-> "https://analyzer.example/api/result/ext1"],
      [workspace_id |-> "ext1", status |-> "queued",
       status_url |-> "/api/status/ext1", result_url |-> Num("5")],
      [workspace_id |-> "ext1", status |-> "queued",
       status_url |-> Doc("summary:A"), result_url |-> Undefined],
      [workspace_id |-> Undefined, status |-> Undefined,
       status_url |-> Undefined, result_url |-> Undefined],
      [workspace_id |-> Undefined, status |-> "queued",
       status_url |-> Undefined, result_url |-> Undefined],
      [workspace_id |-> Undefined, status |-> "",
       status_url |-> Undefined, result_url |-> Undefined] }
\* fetch either throws (analyzer unreachable) or resolves with any HTTP status
AnalyzeOutcomes ==
    { [kind |-> "throw"] } \cup
    [kind : {"resp"}, ok : BOOLEAN, body : AnalyzeBodies \cup {NonJson}]

\* what GET <status url> can answer with a JSON object
StatusBodies ==
    { [status |-> "running", progress |-> Num("30"), message |-> "cloning",
       current_step |-> "clone", workspace_id |-> Undefined],
      [status |-> "running", progress |-> Num("30"), message |-> Undefined,
       current_step |-> Undefined, workspace_id |-> Undefined],
      [status |-> "running", progress |-> Undefined, message |-> Undefined,
       current_step |-> Undefined, workspace_id |-> Undefined],
      [status |-> "completed", progress |-> Undefined, message |-> Undefined,
       current_step |-> Undefined, workspace_id |-> "ext1"],
      [status |-> "completed", progress |-> Undefined, message |-> Undefined,
       current_step |-> Undefined, workspace_id |-> Undefined],
      [status |-> "completed", progress |-> Undefined, message |-> Undefined,
       current_step |-> Undefined, workspace_id |-> Arr(<<"a", "b">>)],
      [status |-> Undefined, progress |-> Undefined, message |-> Undefined,
       current_step |-> Undefined, workspace_id |-> Undefined] }
\* what GET <result url> can answer with: the opaque result document
ResultDocs == {Doc("summary:A"), Doc("summary:B")}
\* a GET either throws, or resolves not-ok, or ok with a body that is JSON or not
FetchOutcomes(bodies) ==
    { [kind |-> "throw"],
      [kind |-> "resp", ok |-> FALSE],
      [kind |-> "resp", ok |-> TRUE, json |-> FALSE] }
    \cup [kind : {"resp"}, ok : {TRUE}, json : {TRUE}, body : bodies]

\* concurrent invocations of the status handler
Handlers == {"h1", "h2"}
\* concurrent invocations of the workspace handler (GET /api/workspaces/{id})
Readers == {"g1", "g2"}

\* ---------------------------------------------------------------- state
VARIABLES
    workspaces,   \* Workspace table: workspace_id -> row
    analyses,     \* Analysis table:  workspaceId  -> row (unique key)
    now,          \* reading of the server clock (new Date())
    creating,     \* create handlers awaiting the analyzer: the rows they created
    hpc,          \* status handler h: position
    hreq,         \* status handler h: the request (id, session email)
    snap,         \* status handler h: `analysis`, the row it loaded
    sdata,        \* status handler h: `statusData`
    upd,          \* status handler h: the data of the update it has issued
    hreqs,        \* status handler h: analyzer exchanges of this invocation
    hwrites,      \* status handler h: store writes made by this invocation
    gpc,          \* workspace handler g: position
    greq,         \* workspace handler g: the request (id, session email)
    out,          \* the HTTP response the step just taken has sent, if any
    view,         \* workspace page: "none" (not rendered), "mounted", "unmounted"
    workspace,    \* workspace page: useState `workspace`
    loading,      \* workspace page: useState `loading`
    error,        \* workspace page: useState `error`
    pollingRef,   \* workspace page: pollingRef.current
    timers,       \* the browser's registered interval timers
    nextTimer,    \* the id the next setInterval returns
    loads,        \* fetchWorkspace runs awaiting GET /api/workspaces/{id}
    polling,      \* interval callbacks awaiting GET /api/workspaces/{id}/status
    finals,       \* interval callbacks awaiting the final GET /api/workspaces/{id}
    net,          \* the responses on their way to the page
    inbox,        \* the response a fetch of the page has just resolved with, if any
    job           \* the analyzer's analysis job: "running" or "completed"

storeVars == <<workspaces, analyses>>
createVars == <<creating>>
statusVars == <<hpc, hreq, snap, sdata, upd, hreqs, hwrites>>
getVars == <<gpc, greq>>
viewVars == <<view, workspace, loading, error, pollingRef, timers, nextTimer,
              loads, polling, finals, inbox>>
serverVars == <<workspaces, analyses, now, creating,
                hpc, hreq, snap, sdata, upd, hreqs, hwrites, gpc, greq>>
vars == <<workspaces, analyses, now, creating,
          hpc, hreq, snap, sdata, upd, hreqs, hwrites, gpc, greq, out,
          view, workspace, loading, error, pollingRef, timers, nextTimer,
          loads, polling, finals, inbox, job, net>>

NoResp == [code |-> 0]
NoAnalysis == [absent |-> TRUE]
NoRequest == [id |-> Undefined, session |-> Null]
NoUpdate == [none |-> TRUE]

HasWorkspace(id) == id \in DOMAIN workspaces
HasAnalysis(id) == id \in DOMAIN analyses
\* prisma.analysis.findUnique({ where: { workspaceId: id } })
FindAnalysis(id) == IF HasAnalysis(id) THEN analyses[id] ELSE NoAnalysis

\* prisma.<table>.create: the table with one row added
Put(table, key, row) ==
    [k \in DOMAIN table \cup {key} |-> IF k = key THEN row ELSE table[k]]
\* prisma.analysis.update: the named columns of the stored row are overwritten
UpdateRow(row, data) ==
    [f \in DOMAIN row |-> IF f \in DOMAIN data THEN data[f] ELSE row[f]]

\* one HTTP exchange with the analyzer: the URL fetched and how it settled
\* ("pending" while in flight)
Exchange(kind, url, result) == [kind |-> kind, url |-> url, result |-> result]
Settle(log, kind, result) ==
    { IF e.kind = kind THEN [e EXCEPT !.result = result] ELSE e : e \in log }
\* how a fetch settled: it threw, or resolved not-ok, or ok with or without JSON
OutcomeTag(res) ==
    IF res.kind = "throw" THEN "throw"
    ELSE IF ~res.ok THEN "notok"
    ELSE IF "json" \in DOMAIN res /\ ~res.json THEN "nonjson"
    ELSE "ok"

\* res.status(code).json(body): the response leaves, tagged with the handler that
\* sent it, its request, and what the invocation did (analyzer exchanges, store
\* writes made).  `out` is what the step just taken has sent: a step that sends
\* nothing leaves NoResp there
Send(who, req, code, body, fetched, written) ==
    out' = [ handler |-> who, req |-> req, code |-> code, body |-> body,
             fetched |-> fetched, written |-> written ]
ErrBody(e) == [error |-> e]

\* ------------------------------------------------ POST /workspaces/create
\* analyzeResp.json().catch(() => null), then analyzeData?.field
AnalyzeField(body, f) == IF body = NonJson THEN Undefined ELSE body[f]

\* an Analysis row that names a workspace other than the one just created
NewAnalysisDangling(wsid, body) ==
    [ workspaceId |-> "ws0", external_workspace_id |-> Null, status |-> "pending",
      progress |-> Null, message |-> Null, current_step |-> Null,
      status_url |-> Null, result_url |-> Null, result |-> Null, completedAt |-> Null ]
\* an Analysis row whose status is left as the analyzer sent it
NewAnalysisNoDefault(wsid, body) ==
    [ workspaceId |-> wsid,
      external_workspace_id |-> Coalesce(AnalyzeField(body, "workspace_id"), Null),
      status |-> Coalesce(AnalyzeField(body, "status"), Null),
      progress |-> Null, message |-> Null, current_step |-> Null,
      status_url |-> NormalizeUrl(AnalyzeField(body, "status_url")),
      result_url |-> NormalizeUrl(AnalyzeField(body, "result_url")),
      result |-> Null, completedAt |-> Null ]
\* lines 111-119: the row analysis.create stores (the other columns default to NULL)
NewAnalysis(wsid, body) ==
    [ workspaceId |-> wsid,
      external_workspace_id |-> Coalesce(AnalyzeField(body, "workspace_id"), Null),
      status |-> Coalesce(AnalyzeField(body, "status"), "pending"),
      progress |-> Null,
      message |-> Null,
      current_step |-> Null,
      status_url |-> NormalizeUrl(AnalyzeField(body, "status_url")),
      result_url |-> NormalizeUrl(AnalyzeField(body, "result_url")),
      result |-> Null,
      completedAt |-> Null ]

\* lines 55-77, 140-143: the checks that end the request early (code 0: none
\* did); name.trim / github_repository.includes of a truthy value that is no
\* string throws into the outer catch, and so does github_repository.trim of
\* an array that passed includes
CreateReject(req) ==
    IF req.method # "POST" THEN [code |-> 405, error |-> "Method not allowed"]
    ELSE IF ~Truthy(req.session) THEN [code |-> 401, error |-> "Unauthorized"]
    ELSE IF ~Truthy(req.name)
         THEN [code |-> 400, error |-> "Workspace name is required"]
    ELSE IF ~IsString(req.name) THEN [code |-> 500, error |-> "Internal server error"]
    ELSE IF ~Truthy(Trim(req.name))
         THEN [code |-> 400, error |-> "Workspace name is required"]
    ELSE IF ~Truthy(req.github_repository)
         THEN [code |-> 400, error |-> "Invalid GitHub repository URL"]
    ELSE IF IsArray(req.github_repository)
         THEN IF ArrayIncludes(req.github_repository, "github.com")
              THEN [code |-> 500, error |-> "Internal server error"]
              ELSE [code |-> 400, error |-> "Invalid GitHub repository URL"]
    ELSE IF ~IsString(req.github_repository)
         THEN [code |-> 500, error |-> "Internal server error"]
    ELSE IF ~Includes(req.github_repository, "github.com")
         THEN [code |-> 400, error |-> "Invalid GitHub repository URL"]
    ELSE [code |-> 0, error |-> ""]

\* the checks' outcome for each request of CreateRequests, worked out once,
\* and for any request
Rejections == { <<req, CreateReject(req)>> : req \in CreateRequests }
RejectionOf(req) ==
    IF req \in CreateRequests
    THEN (CHOOSE p \in Rejections : p[1] = req)[2]
    ELSE CreateReject(req)

\* lines 79-85: the row workspace.create stores
NewWorkspace(id, req) ==
    [ workspace_id |-> id,
      name |-> Trim(req.name),
      github_repository |-> Trim(req.github_repository),
      email |-> req.session ]

\* lines 55-93: the checks, workspace.create, and the analyzer POST goes out;
\* the invocation then awaits the analyzer, whatever other requests arrive
CreateStart(req) ==
    /\ UNCHANGED <<viewVars, job, net>>
    /\ LET rej == RejectionOf(req)
       IN IF rej.code # 0
          THEN /\ Send("create", req, rej.code, ErrBody(rej.error), {}, 0)
               /\ UNCHANGED <<workspaces, creating>>
          ELSE /\ Cardinality(DOMAIN workspaces) < MaxWorkspaces
               /\ LET id == WorkspaceId(Cardinality(DOMAIN workspaces) + 1)
                  IN /\ workspaces' = Put(workspaces, id, NewWorkspace(id, req))
                     /\ creating' = creating \cup {id}
               /\ out' = NoResp
    /\ UNCHANGED <<analyses, now, statusVars, getVars>>

\* create.ts lines 6-47: the handler that stores the Workspace and submits
\* nothing: the same checks, workspace.create, 201 without the key analysis
CreateWorkspaceOnly(req) ==
    /\ UNCHANGED <<viewVars, job, net>>
    /\ LET rej == RejectionOf(req)
       IN IF rej.code # 0
          THEN /\ Send("createOnly", req, rej.code, ErrBody(rej.error), {}, 0)
               /\ UNCHANGED workspaces
          ELSE /\ Cardinality(DOMAIN workspaces) < MaxWorkspaces
               /\ LET id == WorkspaceId(Cardinality(DOMAIN workspaces) + 1)
                      row == NewWorkspace(id, req)
                  IN /\ workspaces' = Put(workspaces, id, row)
                     /\ Send("createOnly", row, 201, [workspace_id |-> id], {}, 1)
    /\ UNCHANGED <<analyses, now, createVars, statusVars, getVars>>

\* lines 99-108: the normalisation of one of the two URLs throws
NormalizeThrows(body) ==
    \/ NormalizeUrl(AnalyzeField(body, "status_url")) = TypeError
    \/ NormalizeUrl(AnalyzeField(body, "result_url")) = TypeError

\* lines 95-139: the analyzer answered the create of workspace id (or fetch
\* threw): analysis.create, 201; a throw inside the inner try lands in its
\* catch: 201 without an Analysis
CreateAnalyzed(id, res) ==
    /\ UNCHANGED <<viewVars, job, net>>
    /\ id \in creating
    /\ IF res.kind = "throw"
       THEN /\ Send("create", workspaces[id], 201,
                    [workspace_id |-> id, analysis |-> NoAnalysis],
                    {Exchange("analyze", AnalyzeUrl, OutcomeTag(res))}, 1)
            /\ UNCHANGED analyses
       ELSE IF NormalizeThrows(res.body)
       THEN /\ Send("create", workspaces[id], 201,
                    [workspace_id |-> id, analysis |-> NoAnalysis],
                    {[ kind |-> "analyze", url |-> AnalyzeUrl,
                       result |-> OutcomeTag(res), body |-> res.body ]}, 1)
            /\ UNCHANGED analyses
       ELSE LET row == NewAnalysis(id, res.body)
            IN /\ analyses' = Put(analyses, id, row)
               /\ Send("create", workspaces[id], 201,
                       [ workspace_id |-> id,
                         analysis |-> [ status |-> row.status,
                                        status_url |-> row.status_url,
                                        result_url |-> row.result_url,
                                        hasResult |-> Truthy(row.result) ] ],
                       {[ kind |-> "analyze", url |-> AnalyzeUrl,
                          result |-> OutcomeTag(res), body |-> res.body ]}, 2)
    /\ creating' = creating \ {id}
    /\ UNCHANGED <<workspaces, now, statusVars, getVars>>

\* -------------------------------------------- GET /workspaces/{id}/status
\* the handler returned: its locals are gone
Return(h) ==
    /\ hpc' = [hpc EXCEPT ![h] = "idle"]
    /\ hreq' = [hreq EXCEPT ![h] = NoRequest]
    /\ snap' = [snap EXCEPT ![h] = NoAnalysis]
    /\ sdata' = [sdata EXCEPT ![h] = NonJson]
    /\ upd' = [upd EXCEPT ![h] = NoUpdate]
    /\ hreqs' = [hreqs EXCEPT ![h] = {}]
    /\ hwrites' = [hwrites EXCEPT ![h] = 0]

Respond(h, code, body) ==
    /\ Send(h, hreq[h], code, body, hreqs[h], hwrites[h])
    /\ Return(h)

\* the same, a fetch of this invocation having just settled
RespondAfter(h, kind, res, code, body) ==
    /\ Send(h, hreq[h], code, body, Settle(hreqs[h], kind, OutcomeTag(res)), hwrites[h])
    /\ Return(h)

\* lines 7-15: id and session checks
StatusAccept(h, req) ==
    /\ hpc[h] = "idle"
    /\ IF ~Truthy(req.id) \/ ~IsString(req.id)
       THEN /\ Send(h, req, 400, ErrBody("Invalid id"), {}, 0)
            /\ UNCHANGED statusVars
       ELSE IF ~Truthy(req.session)
       THEN /\ Send(h, req, 401, ErrBody("Unauthorized"), {}, 0)
            /\ UNCHANGED statusVars
       ELSE /\ hpc' = [hpc EXCEPT ![h] = "load"]
            /\ hreq' = [hreq EXCEPT ![h] = req]
            /\ UNCHANGED <<snap, sdata, upd, hreqs, hwrites>>
            /\ out' = NoResp
    /\ UNCHANGED <<storeVars, now, createVars, getVars>>
StatusStart(h, req) ==
    /\ StatusAccept(h, req)
    /\ UNCHANGED <<viewVars, job, net>>

\* line 30
StatusUrl(a) == Coalesce(a.status_url, StatusUrlOf(a.external_workspace_id))

\* a short-circuit that looks at the stored status instead of the result
HasResultByStatus(a) == a.status = "completed"
\* line 21
HasResult(a) == Truthy(a.result)
\* line 25
NothingToPoll(a) == ~Truthy(a.status_url) /\ ~Truthy(a.external_workspace_id)

\* lines 17-32: load the row, the three early returns, the status GET goes out
LoadAnalysis(h) ==
    /\ hpc[h] = "load"
    /\ LET a == FindAnalysis(hreq[h].id)
       IN IF a = NoAnalysis
          THEN Respond(h, 404, ErrBody("No analysis record"))
          ELSE IF HasResult(a)
          THEN Respond(h, 200, [status |-> "completed", analysis |-> a])
          ELSE IF NothingToPoll(a)
          THEN Respond(h, 200, [status |-> OrElse(a.status, "pending"),
                                analysis |-> NoAnalysis])
          ELSE /\ snap' = [snap EXCEPT ![h] = a]
               /\ hreqs' = [hreqs EXCEPT
                              ![h] = @ \cup {Exchange("status", StatusUrl(a), "pending")}]
               /\ hpc' = [hpc EXCEPT ![h] = "statusGet"]
               /\ UNCHANGED <<hreq, sdata, upd, hwrites>>
               /\ out' = NoResp
    /\ UNCHANGED <<storeVars, now, createVars, getVars>>
StatusLoad(h) ==
    /\ LoadAnalysis(h)
    /\ UNCHANGED <<viewVars, job, net>>

\* lines 42-47: the data of the status update, from the loaded row and statusData
MergeData(a, sd) ==
    [ status |-> OrElse(sd.status, a.status),
      progress |-> Coalesce(sd.progress, a.progress),
      message |-> Coalesce(sd.message, a.message),
      current_step |-> Coalesce(sd.current_step, a.current_step) ]

\* every failed GET answered as an internal error
FetchFailureAllInternal(res, what) ==
    IF res.kind = "throw" \/ ~res.ok \/ ~res.json
    THEN [code |-> 500, error |-> "Internal server error"]
    ELSE [code |-> 0, error |-> ""]
\* lines 33-37, 56-57, 68-70, 75-78: how a settled GET ends the request early
\* (code 0: it does not): a fetch or a json() that throws lands in the catch
FetchFailure(res, what) ==
    IF res.kind = "throw" THEN [code |-> 500, error |-> "Internal server error"]
    ELSE IF ~res.ok
    THEN [code |-> 502, error |-> "Failed to fetch " \o what \o " from analyzer"]
    ELSE IF ~res.json THEN [code |-> 500, error |-> "Internal server error"]
    ELSE [code |-> 0, error |-> ""]

\* the fields of a record that the code still reads
Keep(rec, fields) == [f \in fields |-> rec[f]]

\* lines 32-47: the status GET settled; on success the status update is issued
\* with its data built from the loaded row and statusData.  From here on the
\* handler reads only external_workspace_id and result_url of the loaded row
\* and status and workspace_id of statusData.
StatusFetched(h, res) ==
    /\ UNCHANGED <<viewVars, job, net>>
    /\ hpc[h] = "statusGet"
    /\ IF FetchFailure(res, "status").code # 0
       THEN RespondAfter(h, "status", res, FetchFailure(res, "status").code,
                         ErrBody(FetchFailure(res, "status").error))
       ELSE /\ sdata' = [sdata EXCEPT ![h] = Keep(res.body, {"status", "workspace_id"})]
            /\ hreqs' = [hreqs EXCEPT ![h] = Settle(@, "status", OutcomeTag(res))]
            /\ upd' = [upd EXCEPT ![h] = MergeData(snap[h], res.body)]
            /\ snap' = [snap EXCEPT
                          ![h] = Keep(@, {"external_workspace_id", "result_url"})]
            /\ hpc' = [hpc EXCEPT ![h] = "mergeWrite"]
            /\ UNCHANGED <<hreq, hwrites>>
            /\ out' = NoResp
    /\ UNCHANGED <<storeVars, now, createVars, getVars>>

\* line 51
WantsResult(sd) == sd.status = "completed"

\* lines 52-53
ResultUrl(a, sd) ==
    Coalesce(a.result_url,
             ResultUrlOf(Coalesce(a.external_workspace_id, sd.workspace_id)))

\* lines 40-55: the status update commits; when completed the result GET goes out
MergeWrite(h) ==
    /\ UNCHANGED <<viewVars, job, net>>
    /\ hpc[h] = "mergeWrite"
    /\ analyses' = [analyses EXCEPT ![hreq[h].id] = UpdateRow(@, upd[h])]
    /\ upd' = [upd EXCEPT ![h] = NoUpdate]
    /\ hwrites' = [hwrites EXCEPT ![h] = @ + 1]
    /\ IF WantsResult(sdata[h])
       THEN /\ hreqs' = [hreqs EXCEPT
                           ![h] = @ \cup {Exchange("result", ResultUrl(snap[h], sdata[h]),
                                                   "pending")}]
            /\ hpc' = [hpc EXCEPT ![h] = "resultGet"]
       ELSE /\ hpc' = [hpc EXCEPT ![h] = "reload"]
            /\ UNCHANGED hreqs
    /\ UNCHANGED <<workspaces, now, createVars, getVars, hreq, snap, sdata>>
    /\ out' = NoResp

\* a result update that forgets completedAt
ResultDataNoDate(doc, date) == [result |-> doc, status |-> "completed"]
\* a result update that leaves status to the status update before it
ResultDataNoStatus(doc, date) == [result |-> doc, completedAt |-> date]
\* lines 60-64: the data of the result update
ResultData(doc, date) ==
    [result |-> doc, completedAt |-> date, status |-> "completed"]

\* new Date(), as stored: the text of a clock reading
DateOf(t) == ToString(t)

\* lines 55-64, 68-70: the result GET settled; on success the result update is
\* issued, its completedAt read from the clock (reading t, not before the last)
ResultFetched(h, res, t) ==
    /\ UNCHANGED <<viewVars, job, net>>
    /\ hpc[h] = "resultGet"
    /\ IF FetchFailure(res, "result").code # 0
       THEN /\ RespondAfter(h, "result", res, FetchFailure(res, "result").code,
                            ErrBody(FetchFailure(res, "result").error))
            /\ UNCHANGED now
       ELSE /\ t >= now
            /\ now' = t
            /\ upd' = [upd EXCEPT ![h] = ResultData(res.body, DateOf(t))]
            /\ hreqs' = [hreqs EXCEPT ![h] = Settle(@, "result", OutcomeTag(res))]
            /\ hpc' = [hpc EXCEPT ![h] = "resultWrite"]
            /\ UNCHANGED <<hreq, snap, sdata, hwrites>>
            /\ out' = NoResp
    /\ UNCHANGED <<storeVars, createVars, getVars>>

\* lines 58-65: the result update commits
ResultWrite(h) ==
    /\ UNCHANGED <<viewVars, job, net>>
    /\ hpc[h] = "resultWrite"
    /\ analyses' = [analyses EXCEPT ![hreq[h].id] = UpdateRow(@, upd[h])]
    /\ upd' = [upd EXCEPT ![h] = NoUpdate]
    /\ hwrites' = [hwrites EXCEPT ![h] = @ + 1]
    /\ hpc' = [hpc EXCEPT ![h] = "reload"]
    /\ UNCHANGED <<workspaces, now, createVars, getVars, hreq, snap, sdata, hreqs>>
    /\ out' = NoResp

\* lines 66-67 and 73-74: reload the row and answer 200
ReloadAnalysis(h) ==
    /\ hpc[h] = "reload"
    /\ Respond(h, 200, [ status |-> IF WantsResult(sdata[h]) THEN "completed"
                                    ELSE sdata[h].status,
                         analysis |-> FindAnalysis(hreq[h].id) ])
    /\ UNCHANGED <<storeVars, now, createVars, getVars>>
StatusReload(h) ==
    /\ ReloadAnalysis(h)
    /\ UNCHANGED <<viewVars, job, net>>

\* ---------------------------------------------------- GET /workspaces/{id}
\* a summary that leaves the result out
AnalysisSummaryNoResult(a) ==
    IF a = NoAnalysis THEN NoAnalysis
    ELSE [ status |-> a.status, progress |-> a.progress, message |-> a.message,
           current_step |-> a.current_step, status_url |-> a.status_url,
           result_url |-> a.result_url, completedAt |-> a.completedAt,
           hasResult |-> FALSE, result |-> Null ]
\* lines 151-163
AnalysisSummary(a) ==
    IF a = NoAnalysis THEN NoAnalysis
    ELSE [ status |-> a.status,
           progress |-> Coalesce(a.progress, Null),
           message |-> Coalesce(a.message, Null),
           current_step |-> Coalesce(a.current_step, Null),
           status_url |-> Coalesce(a.status_url, Null),
           result_url |-> Coalesce(a.result_url, Null),
           completedAt |-> Coalesce(a.completedAt, Null),
           hasResult |-> Truthy(a.result),
           result |-> Coalesce(a.result, Null) ]

\* line 139: the row exists and is the caller's
Owns(email, id) == HasWorkspace(id) /\ workspaces[id].email = email

\* the handler returned: its locals are gone
GetReturn(g) ==
    /\ gpc' = [gpc EXCEPT ![g] = "idle"]
    /\ greq' = [greq EXCEPT ![g] = NoRequest]

\* lines 123-136: id and session checks of the read-only handler
GetAccept(g, req) ==
    /\ gpc[g] = "idle"
    /\ IF ~Truthy(req.id) \/ ~IsString(req.id)
       THEN /\ Send("get", req, 400, ErrBody("Invalid id"), {}, 0)
            /\ UNCHANGED getVars
       ELSE IF ~Truthy(req.session)
       THEN /\ Send("get", req, 401, ErrBody("Unauthorized"), {}, 0)
            /\ UNCHANGED getVars
       ELSE /\ gpc' = [gpc EXCEPT ![g] = "find"]
            /\ greq' = [greq EXCEPT ![g] = req]
            /\ out' = NoResp
    /\ UNCHANGED <<storeVars, now, createVars, statusVars>>
GetStart(g, req) ==
    /\ GetAccept(g, req)
    /\ UNCHANGED <<viewVars, job, net>>

\* lines 138-141: workspace.findUnique and the ownership check
FindWorkspace(g) ==
    /\ gpc[g] = "find"
    /\ IF ~Owns(greq[g].session, greq[g].id)
       THEN /\ Send("get", greq[g], 404, ErrBody("Workspace not found"), {}, 0)
            /\ GetReturn(g)
       ELSE /\ gpc' = [gpc EXCEPT ![g] = "analysis"]
            /\ UNCHANGED greq
            /\ out' = NoResp
    /\ UNCHANGED <<storeVars, now, createVars, statusVars>>
GetFind(g) ==
    /\ FindWorkspace(g)
    /\ UNCHANGED <<viewVars, job, net>>

\* lines 144-167: analysis.findUnique, then 200 with the workspace (a row that
\* no write changes) and the summary of the row just read
ReadAnalysis(g) ==
    /\ gpc[g] = "analysis"
    /\ Send("get", greq[g], 200,
            [ workspace_id |-> greq[g].id, email |-> workspaces[greq[g].id].email,
              analysis |-> AnalysisSummary(FindAnalysis(greq[g].id)) ], {}, 0)
    /\ GetReturn(g)
    /\ UNCHANGED <<storeVars, now, createVars, statusVars>>
GetAnswer(g) ==
    /\ ReadAnalysis(g)
    /\ UNCHANGED <<viewVars, job, net>>

\* lines 86-116: the handler that reads the Workspace alone: no analysis key
GetWorkspaceOnly(req) ==
    /\ UNCHANGED <<viewVars, job, net>>
    /\ IF ~Truthy(req.id) \/ ~IsString(req.id)
       THEN Send("getOnly", req, 400, ErrBody("Invalid id"), {}, 0)
       ELSE IF ~Truthy(req.session)
       THEN Send("getOnly", req, 401, ErrBody("Unauthorized"), {}, 0)
       ELSE IF ~Owns(req.session, req.id)
       THEN Send("getOnly", req, 404, ErrBody("Workspace not found"), {}, 0)
       ELSE Send("getOnly", req, 200,
                 [workspace_id |-> req.id, email |-> workspaces[req.id].email], {}, 0)
    /\ UNCHANGED <<storeVars, now, createVars, statusVars, getVars>>

\* ------------------------------------------------ workspace page (poller)
\* pollingRef.current === null
NoTimer == 0
\* useState<WorkspaceData | null>(null)
NoWorkspace == [none |-> TRUE]

\* obj.f of a parsed JSON object: undefined when the key is missing
Field(obj, f) == IF f \in DOMAIN obj THEN obj[f] ELSE Undefined
\* data.analysis, a missing or null one read as NoAnalysis
GetAnalysis(data) == IF "analysis" \in DOMAIN data THEN data.analysis ELSE NoAnalysis
\* res.ok
Ok(res) == res.code >= 200 /\ res.code <= 299

\* what GET /api/workspaces/{id} answers the page: fetch throws (or the body is
\* no JSON), an error, or the workspace with its analysis summary (null if none)
LoadSummaries ==
    { NoAnalysis,
      [status |-> "running", hasResult |-> FALSE, result |-> Null],
      [status |-> "completed", hasResult |-> TRUE, result |-> Doc("summary:A")] }
LoadResponses ==
    { [kind |-> "throw"],
      [kind |-> "resp", code |-> 404, body |-> ErrBody("Workspace not found")],
      [kind |-> "resp", code |-> 503, body |-> [message |-> "unavailable"]] }
    \cup { [kind |-> "resp", code |-> 200, body |-> [workspace |-> [analysis |-> a]]] :
             a \in LoadSummaries }

\* what GET /api/workspaces/{id}/status answers the page: the status handler's
\* 200 bodies ({status}, {status, analysis}) and its errors
PollAnalyses ==
    { NoAnalysis,
      [status |-> "running", result |-> Null],
      [status |-> "completed", result |-> Doc("summary:A")] }
PollResponses ==
    { [kind |-> "throw"],
      [kind |-> "resp", code |-> 404, body |-> ErrBody("No analysis record")],
      [kind |-> "resp", code |-> 502,
       body |-> ErrBody("Failed to fetch status from analyzer")],
      [kind |-> "resp", code |-> 503, body |-> [message |-> "unavailable"]] }
    \cup { [kind |-> "resp", code |-> 200, body |-> [status |-> st, analysis |-> a]] :
             st \in {"completed", "running", Undefined}, a \in PollAnalyses }

\* the page was rendered: useState / useRef initial values are in place
Mount ==
    /\ view = "none"
    /\ view' = "mounted"
    /\ UNCHANGED <<workspace, loading, error, pollingRef, timers, nextTimer,
                   loads, polling, finals, inbox>>
    /\ out' = NoResp
    /\ UNCHANGED <<serverVars, job, net>>

\* lines 37-42, 63: the [id] effect runs with a usable id: fetchWorkspace starts
FetchWorkspace ==
    /\ view = "mounted"
    /\ loads < MaxLoads
    /\ loading' = TRUE
    /\ loads' = loads + 1
    /\ UNCHANGED <<view, workspace, error, pollingRef, timers, nextTimer, polling,
                   finals, inbox>>
    /\ out' = NoResp
    /\ UNCHANGED <<serverVars, job, net>>

\* no response is being handled by the page
NoMessage == [to |-> "none"]
\* the requests of one kind that the page has in flight
InFlight(to) == IF to = "load" THEN loads ELSE IF to = "poll" THEN polling ELSE finals
\* a fetch of the page settles: the awaiting code will resume with this outcome
Settles(to, res) ==
    /\ inbox = NoMessage
    /\ InFlight(to) > 0
    /\ inbox' = [to |-> to, res |-> res]
    /\ UNCHANGED <<view, workspace, loading, error, pollingRef, timers, nextTimer,
                   loads, polling, finals>>
Answer(to, res) ==
    /\ Settles(to, res)
    /\ out' = NoResp
    /\ UNCHANGED <<serverVars, job, net>>

\* line 51: the loaded workspace has no analysis, or one without a result
NeedsPolling(ws) == ws.analysis = NoAnalysis \/ ~ws.analysis.hasResult

\* a guard that lets every call through
NeverPolling == FALSE
\* line 69: if (pollingRef.current) return
AlreadyPolling == pollingRef # NoTimer

\* clearInterval(pollingRef.current) under `if (pollingRef.current)`
ClearInterval(ts, ref) == IF ref # NoTimer THEN ts \ {ref} ELSE ts

\* lines 25-27: setWorkspace, setLoading, setError: the state takes the new
\* value while the component is mounted; React drops the update of a component
\* that was unmounted (refs and timers are not React state and are not guarded)
SetState(cur, new) == IF view = "mounted" THEN new ELSE cur

\* lines 43-60 and 68-73: the response to fetchWorkspace arrived; on success
\* pollStatus() runs to its end (it awaits nothing), then the finally block
WorkspaceLoaded(res) ==
    /\ inbox = [to |-> "load", res |-> res]
    /\ inbox' = NoMessage
    /\ loads' = loads - 1
    /\ loading' = SetState(loading, FALSE)
    /\ IF res.kind = "throw"
       THEN /\ error' = SetState(error, "Failed to load workspace")
            /\ UNCHANGED <<workspace, pollingRef, timers, nextTimer>>
       ELSE IF ~Ok(res)
       THEN /\ error' = SetState(error, OrElse(Field(res.body, "error"),
                                               "Failed to load workspace"))
            /\ UNCHANGED <<workspace, pollingRef, timers, nextTimer>>
       ELSE /\ workspace' = SetState(workspace, res.body.workspace)
            /\ IF NeedsPolling(res.body.workspace) /\ ~AlreadyPolling
               THEN /\ nextTimer <= MaxTimers
                    /\ error' = SetState(error, "")
                    /\ pollingRef' = nextTimer
                    /\ timers' = timers \cup {nextTimer}
                    /\ nextTimer' = nextTimer + 1
               ELSE UNCHANGED <<error, pollingRef, timers, nextTimer>>
    /\ UNCHANGED <<view, polling, finals>>
    /\ out' = NoResp
    /\ UNCHANGED <<serverVars, job, net>>

\* lines 73-75: a registered interval timer fires: its callback requests the status
Fires ==
    /\ \E t \in timers : TRUE
    /\ polling < MaxInFlight
    /\ polling' = polling + 1
    /\ UNCHANGED <<view, workspace, loading, error, pollingRef, timers, nextTimer,
                   loads, finals, inbox>>
Tick ==
    /\ Fires
    /\ out' = NoResp
    /\ UNCHANGED <<serverVars, job, net>>

\* a terminal check that looks at the status alone
IsTerminalByStatus(data) == Field(data, "status") = "completed"
\* line 104: analysis && analysis.result
CarriesResult(a) == a # NoAnalysis /\ Truthy(a.result)
\* line 98
IsTerminal(data) ==
    Field(data, "status") = "completed" \/ CarriesResult(GetAnalysis(data))

\* a callback that gives up only when fetch throws
TickFailsOnThrow(res) == res.kind = "throw"
\* lines 77 and 115: the status call failed (not-ok, or fetch / json() threw)
TickFails(res) == res.kind = "throw" \/ ~Ok(res)

\* lines 76-123: the response to a callback's status request arrived
TickSettled(res) ==
    /\ inbox = [to |-> "poll", res |-> res]
    /\ inbox' = NoMessage
    /\ polling' = polling - 1
    /\ IF TickFails(res)
       THEN /\ error' = SetState(error,
                                 IF res.kind = "throw" THEN "Polling failed"
                                 ELSE OrElse(Field(res.body, "error"),
                                             "Failed to fetch status"))
            /\ timers' = ClearInterval(timers, pollingRef)
            /\ pollingRef' = NoTimer
            /\ loading' = SetState(loading, FALSE)
            /\ UNCHANGED <<workspace, finals>>
       ELSE /\ workspace' =
                  SetState(workspace,
                           IF GetAnalysis(res.body) # NoAnalysis /\ workspace # NoWorkspace
                           THEN [analysis |-> GetAnalysis(res.body)]
                           ELSE workspace)
            /\ IF IsTerminal(res.body)
               THEN /\ timers' = ClearInterval(timers, pollingRef)
                    /\ pollingRef' = NoTimer
                    /\ IF CarriesResult(GetAnalysis(res.body))
                       THEN /\ loading' = SetState(loading, FALSE)
                            /\ UNCHANGED finals
                       ELSE /\ finals < MaxInFlight
                            /\ finals' = finals + 1
                            /\ UNCHANGED loading
               ELSE UNCHANGED <<timers, pollingRef, loading, finals>>
            /\ UNCHANGED error
    /\ UNCHANGED <<view, nextTimer, loads>>
    /\ out' = NoResp
    /\ UNCHANGED <<serverVars, job, net>>

\* lines 105-113: the final fetch of a terminal callback settled
FinalLoaded(res) ==
    /\ inbox = [to |-> "final", res |-> res]
    /\ inbox' = NoMessage
    /\ finals' = finals - 1
    /\ workspace' = SetState(workspace,
                             IF res.kind = "resp" /\ Ok(res) THEN res.body.workspace
                             ELSE workspace)
    /\ loading' = SetState(loading, FALSE)
    /\ UNCHANGED <<view, error, pollingRef, timers, nextTimer, loads, polling>>
    /\ out' = NoResp
    /\ UNCHANGED <<serverVars, job, net>>

\* lines 128-135: the cleanup of the mount effect
Unmount ==
    /\ view = "mounted"
    /\ view' = "unmounted"
    /\ timers' = ClearInterval(timers, pollingRef)
    /\ pollingRef' = NoTimer
    /\ UNCHANGED <<workspace, loading, error, nextTimer, loads, polling, finals, inbox>>
    /\ out' = NoResp
    /\ UNCHANGED <<serverVars, job, net>>

\* ------------------------- workspace page of the revision without a poller
\* what the workspace handler of that revision answers the page
WorkspaceOnlyResponses ==
    { [kind |-> "throw"],
      [kind |-> "resp", code |-> 401, body |-> ErrBody("Unauthorized")],
      [kind |-> "resp", code |-> 404, body |-> ErrBody("Workspace not found")],
      [kind |-> "resp", code |-> 503, body |-> [message |-> "unavailable"]] }
    \cup { [kind |-> "resp", code |-> 200,
            body |-> [workspace |-> [workspace_id |-> id, email |-> "alice@x"]]] :
             id \in WorkspaceIds }

\* lines 301-305 and 323: the [id] effect runs with a usable id: fetchWorkspace
\* starts
FetchWorkspaceOnly ==
    /\ view = "mounted"
    /\ loads < MaxLoads
    /\ loading' = TRUE
    /\ loads' = loads + 1
    /\ UNCHANGED <<view, workspace, error, pollingRef, timers, nextTimer, polling,
                   finals, inbox>>
    /\ out' = NoResp
    /\ UNCHANGED <<serverVars, job, net>>

\* lines 306-320: the response to fetchWorkspace arrived; nothing is polled
WorkspaceOnlyLoaded(res) ==
    /\ inbox = [to |-> "load", res |-> res]
    /\ inbox' = NoMessage
    /\ loads' = loads - 1
    /\ loading' = SetState(loading, FALSE)
    /\ IF res.kind = "throw"
       THEN /\ error' = SetState(error, "Failed to load workspace")
            /\ UNCHANGED workspace
       ELSE IF ~Ok(res)
       THEN /\ error' = SetState(error, OrElse(Field(res.body, "error"),
                                               "Failed to load workspace"))
            /\ UNCHANGED workspace
       ELSE /\ workspace' = SetState(workspace, res.body.workspace)
            /\ UNCHANGED error
    /\ UNCHANGED <<view, pollingRef, timers, nextTimer, polling, finals>>
    /\ out' = NoResp
    /\ UNCHANGED <<serverVars, job, net>>

\* the page is left: this revision has no cleanup effect
UnmountOnly ==
    /\ view = "mounted"
    /\ view' = "unmounted"
    /\ UNCHANGED <<workspace, loading, error, pollingRef, timers, nextTimer, loads,
                   polling, finals, inbox>>
    /\ out' = NoResp
    /\ UNCHANGED <<serverVars, job, net>>

\* ---------------------------------------------------------- specification
Init ==
    /\ workspaces = [k \in {} |-> Null]
    /\ analyses = [k \in {} |-> Null]
    /\ now = 1
    /\ creating = {}
    /\ hpc = [h \in Handlers |-> "idle"]
    /\ hreq = [h \in Handlers |-> NoRequest]
    /\ snap = [h \in Handlers |-> NoAnalysis]
    /\ sdata = [h \in Handlers |-> NonJson]
    /\ upd = [h \in Handlers |-> NoUpdate]
    /\ hreqs = [h \in Handlers |-> {}]
    /\ hwrites = [h \in Handlers |-> 0]
    /\ gpc = [g \in Readers |-> "idle"]
    /\ greq = [g \in Readers |-> NoRequest]
    /\ out = NoResp
    /\ view = "none"
    /\ workspace = NoWorkspace
    /\ loading = TRUE
    /\ error = ""
    /\ pollingRef = NoTimer
    /\ timers = {}
    /\ nextTimer = 1
    /\ loads = 0
    /\ polling = 0
    /\ finals = 0
    /\ inbox = NoMessage
    /\ job = "running"
    /\ net = EmptyBag

\* requests that pass the checks of the handlers
ValidCreates == { r \in CreateRequests : CreateReject(r).code = 0 }
ValidIdRequests ==
    { r \in IdRequests : Truthy(r.id) /\ IsString(r.id) /\ Truthy(r.session) }
Clock == 1..MaxClock

\* the reconciler under concurrent status checks of the first workspace stored
Next ==
    \/ \E req \in ValidCreates : DOMAIN workspaces = {} /\ CreateStart(req)
    \/ \E id \in WorkspaceIds, res \in AnalyzeOutcomes : CreateAnalyzed(id, res)
    \/ \E h \in Handlers, req \in ValidIdRequests : StatusStart(h, req)
    \/ \E h \in Handlers : StatusLoad(h)
    \/ \E h \in Handlers, res \in FetchOutcomes(StatusBodies) : StatusFetched(h, res)
    \/ \E h \in Handlers : MergeWrite(h)
    \/ \E h \in Handlers, res \in FetchOutcomes(ResultDocs), t \in Clock :
          ResultFetched(h, res, t)
    \/ \E h \in Handlers : ResultWrite(h)
    \/ \E h \in Handlers : StatusReload(h)

Spec == Init /\ [][Next]_vars

\* the whole HTTP surface, every request shape, one status check and one
\* workspace read at a time, up to the first workspace stored
NextApi ==
    \/ \E req \in CreateRequests :
          (DOMAIN workspaces = {} \/ req \notin ValidCreates) /\ CreateStart(req)
    \/ \E id \in WorkspaceIds, res \in AnalyzeOutcomes : CreateAnalyzed(id, res)
    \/ \E req \in IdRequests : StatusStart("h1", req)
    \/ StatusLoad("h1")
    \/ \E res \in FetchOutcomes(StatusBodies) : StatusFetched("h1", res)
    \/ MergeWrite("h1")
    \/ \E res \in FetchOutcomes(ResultDocs), t \in Clock : ResultFetched("h1", res, t)
    \/ ResultWrite("h1")
    \/ StatusReload("h1")
    \/ \E req \in IdRequests : GetStart("g1", req)
    \/ GetFind("g1")
    \/ GetAnswer("g1")

SpecApi == Init /\ [][NextApi]_vars

\* the handlers and the page of the revision before the analyzer was called
\* (create.ts lines 6-47, status.ts lines 86-116, [id].tsx lines 288-362)
NextOld ==
    \/ \E req \in CreateRequests : CreateWorkspaceOnly(req)
    \/ \E req \in IdRequests : GetWorkspaceOnly(req)
    \/ Mount
    \/ FetchWorkspaceOnly
    \/ \E res \in WorkspaceOnlyResponses : Answer("load", res)
    \/ \E res \in WorkspaceOnlyResponses : WorkspaceOnlyLoaded(res)
    \/ UnmountOnly

SpecOld == Init /\ [][NextOld]_vars

\* the workspace page against every answer its two endpoints can give
NextPoller ==
    \/ Mount
    \/ FetchWorkspace
    \/ \E res \in LoadResponses : Answer("load", res)
    \/ \E res \in LoadResponses : WorkspaceLoaded(res)
    \/ Tick
    \/ \E res \in PollResponses : Answer("poll", res)
    \/ \E res \in PollResponses : TickSettled(res)
    \/ \E res \in LoadResponses : Answer("final", res)
    \/ \E res \in LoadResponses : FinalLoaded(res)
    \/ Unmount

SpecPoller == Init /\ [][NextPoller]_vars

\* ------------------------------------------- the page against the reconciler
\* the page's requests: router.query.id and the signed-in user's session
PageRequest == [id |-> "ws1", session |-> "alice@x"]
\* the create request of that user
PageCreate ==
    [ method |-> "POST", session |-> "alice@x", name |-> "demo",
      github_repository |-> " https://github.com/x/y\\u3000" ]
\* the analyzer's answers to the submission: unreachable, no metadata, done at
\* once without a job, a job
SubmitAnswers ==
    { [kind |-> "throw"],
      [kind |-> "resp", ok |-> TRUE, body |-> NonJson],
      [kind |-> "resp", ok |-> TRUE,
       body |-> [workspace_id |-> Undefined, status |-> "completed",
                 status_url |-> Undefined, result_url |-> Undefined]],
      [kind |-> "resp", ok |-> TRUE,
       body |-> [workspace_id |-> "ext1", status |-> Undefined,
                 status_url |-> "/api/status/ext1", result_url |-> "/api/result/ext1"]] }
\* a healthy analyzer: its status endpoint reports the job, its result endpoint
\* serves the document
StatusAnswer ==
    [ kind |-> "resp", ok |-> TRUE, json |-> TRUE,
      body |-> IF job = "completed"
               THEN [status |-> "completed", progress |-> Undefined, message |-> Undefined,
                     current_step |-> Undefined, workspace_id |-> "ext1"]
               ELSE [status |-> "running", progress |-> Num("30"), message |-> Undefined,
                     current_step |-> Undefined, workspace_id |-> Undefined] ]
ResultAnswer == [kind |-> "resp", ok |-> TRUE, json |-> TRUE, body |-> Doc("summary:A")]

\* the analyzer finishes the job, for good
AnalyzerFinishes ==
    /\ job = "running"
    /\ job' = "completed"
    /\ out' = NoResp
    /\ UNCHANGED <<serverVars, viewVars, net>>

\* [id].tsx lines 37-63: the [id] effect runs once, the id staying the same
IdEffect ==
    /\ loading
    /\ loads = 0
    /\ FetchWorkspace

\* a response as the page's fetch resolves with it
Resolved(resp) ==
    [ kind |-> "resp", code |-> resp.code,
      body |-> IF resp.handler = "get" /\ resp.code = 200
               THEN [workspace |-> [analysis |-> resp.body.analysis]]
               ELSE resp.body ]
\* the requests of one kind whose response is on its way or being handled
Answered(to) ==
    BagCardinality([m \in {x \in BagToSet(net) : x.to = to} |-> CopiesIn(m, net)])
    + (IF inbox.to = to THEN 1 ELSE 0)
\* the response this step has sent, if any, is on its way to the page, which
\* awaits it in a request of kind `to`
Posts(to) ==
    net' = IF out' # NoResp
           THEN net (+) SetToBag({[to |-> to, res |-> Resolved(out')]})
           ELSE net

\* the invocation of the workspace handler that serves the page's requests of
\* one kind
ReaderOf(to) == IF to = "load" THEN "g1" ELSE "g2"
\* [id].tsx lines 42 and 106 into status.ts line 123: a GET /api/workspaces/{id}
\* of the page reaches the handler
LoadRequest(to) ==
    /\ InFlight(to) > Answered(to)
    /\ GetAccept(ReaderOf(to), PageRequest)
    /\ Posts(to)
    /\ UNCHANGED <<viewVars, job>>
\* the steps of the handler serving it
LoadStep(to) ==
    /\ FindWorkspace(ReaderOf(to)) \/ ReadAnalysis(ReaderOf(to))
    /\ Posts(to)
    /\ UNCHANGED <<viewVars, job>>

\* the status requests of the page that a handler is working on
Serving == Cardinality({h \in Handlers : hpc[h] # "idle"})
\* status.ts lines 6-15: a status request that a tick has sent (Tick) and that
\* no handler has taken up yet reaches the handler, which starts on it
PollRequest(h) ==
    /\ polling > Answered("poll") + Serving
    /\ StatusAccept(h, PageRequest)
    /\ Posts("poll")
    /\ UNCHANGED <<viewVars, job>>

\* a response on its way reaches the page: the awaiting code will resume with it
ToPage(m) ==
    /\ BagIn(m, net)
    /\ Settles(m.to, m.res)
    /\ net' = net (-) SetToBag({m})
    /\ out' = NoResp
    /\ UNCHANGED <<serverVars, job>>
Arrives == \E m \in BagToSet(net) : ToPage(m)

\* the steps of one status check against the healthy analyzer
CheckStep(h) ==
    \/ LoadAnalysis(h) /\ Posts("poll") /\ UNCHANGED <<viewVars, job>>
    \/ StatusFetched(h, StatusAnswer)
    \/ MergeWrite(h)
    \/ ResultFetched(h, ResultAnswer, now)
    \/ ResultWrite(h)
    \/ ReloadAnalysis(h) /\ Posts("poll") /\ UNCHANGED <<viewVars, job>>
\* the page resumes the code that awaited the response
PageResumes ==
    \/ inbox.to = "load" /\ WorkspaceLoaded(inbox.res)
    \/ inbox.to = "poll" /\ TickSettled(inbox.res)
    \/ inbox.to = "final" /\ FinalLoaded(inbox.res)

\* one page polling the reconciler, the analyzer healthy, the view kept open
NextLive ==
    \/ CreateStart(PageCreate)
    \/ \E id \in WorkspaceIds, res \in SubmitAnswers : CreateAnalyzed(id, res)
    \/ AnalyzerFinishes
    \/ Mount
    \/ IdEffect
    \/ \E to \in {"load", "final"} : LoadRequest(to)
    \/ \E to \in {"load", "final"} : LoadStep(to)
    \/ Tick
    \/ \E h \in Handlers : PollRequest(h)
    \/ \E h \in Handlers : CheckStep(h)
    \/ Arrives
    \/ PageResumes

\* every request is served, every response arrives and is handled, a registered
\* timer keeps firing, the job finishes; what the user does is not forced
Fairness ==
    /\ \A h \in Handlers : SF_vars(CheckStep(h))
    /\ \A id \in WorkspaceIds : SF_vars(\E res \in SubmitAnswers : CreateAnalyzed(id, res))
    /\ SF_vars(\E to \in {"load", "final"} : LoadRequest(to))
    /\ \A to \in {"load", "final"} : SF_vars(LoadStep(to))
    /\ SF_vars(Tick)
    /\ SF_vars(\E h \in Handlers : PollRequest(h))
    /\ SF_vars(Arrives)
    /\ WF_vars(PageResumes)
    /\ WF_vars(AnalyzerFinishes)

SpecLive == Init /\ [][NextLive]_vars /\ Fairness

\* ================================================================ claims
\* the stored Analysis row of a workspace
Row(id) == analyses[id]
\* a response of the status handler is on its way
StatusOut == out # NoResp /\ out.handler \in Handlers
\* the request passed the id and session checks
PassedChecks(req) == Truthy(req.id) /\ IsString(req.id) /\ Truthy(req.session)
\* handler h takes the step that leaves position pos
Leaves(h, pos) == hpc[h] = pos /\ hpc'[h] # pos
\* the invocation's exchange of this kind settled this way
Settled(log, kind, results) == \E e \in log : e.kind = kind /\ e.result \in results

\* C1: once the stored Analysis has a non-null result, no later write changes
\* result or completedAt (the result is written at most once per Analysis).
C1_ResultWrittenOnce ==
    [][\A id \in DOMAIN analyses :
          Row(id).result # Null =>
             /\ analyses'[id].result = Row(id).result
             /\ analyses'[id].completedAt = Row(id).completedAt]_vars

\* C2: a status check that loads an Analysis whose result is non-null answers
\* 200 `completed` with exactly the stored row, has fetched nothing from the
\* analyzer, has written nothing, and leaves the store as it was.
C2_ShortCircuit ==
    [][\A h \in Handlers :
          (Leaves(h, "load") /\ HasAnalysis(hreq[h].id) /\ Row(hreq[h].id).result # Null)
          => /\ analyses' = analyses
             /\ hpc'[h] = "idle"
             /\ out' = [ handler |-> h, req |-> hreq[h], code |-> 200,
                         body |-> [status |-> "completed", analysis |-> Row(hreq[h].id)],
                         fetched |-> {}, written |-> 0 ]]_vars
\* a short-circuited answer: completed, with a result, no analyzer exchange
C2_Witness ==
    /\ StatusOut
    /\ out.code = 200
    /\ out.fetched = {}
    /\ out.body.status = "completed"
    /\ out.body.analysis # NoAnalysis
    /\ out.body.analysis.result # Null

\* C3: in every state of the store, completedAt is set exactly when result is.
C3_CompletedAtIffResult ==
    \A id \in DOMAIN analyses : (Row(id).completedAt # Null) <=> (Row(id).result # Null)
\* a row whose result was persisted
C3_Witness ==
    \E id \in DOMAIN analyses : Row(id).result # Null /\ Row(id).completedAt # Null

\* C4 as claimed: in every state of the store, result is non-null exactly when
\* the stored status is `completed`.
C4_ResultIffCompleted ==
    \A id \in DOMAIN analyses : (Row(id).result # Null) <=> (Row(id).status = "completed")
\* C4 as amended: every write that sets or changes result leaves the row with a
\* non-null result and status `completed`, written in that same update.
C4_ResultWriteCompletes ==
    [][\A id \in DOMAIN analyses :
          analyses'[id].result # Row(id).result =>
             /\ analyses'[id].result # Null
             /\ analyses'[id].status = "completed"]_vars
\* a row with its result persisted and status completed
C4_Witness ==
    \E id \in DOMAIN analyses : Row(id).result # Null /\ Row(id).status = "completed"

\* C5: a status check for a workspace id that has no Analysis row answers with
\* status `pending` (no error), fetches nothing and writes nothing.
C5_MissingAnalysisIsPending ==
    (StatusOut /\ PassedChecks(out.req) /\ ~HasAnalysis(out.req.id))
    => /\ out.code = 200
       /\ out.body.status = "pending"
       /\ out.fetched = {}
       /\ out.written = 0

\* the invocation of h issues its GET of this kind in this step
Issues(h, kind) ==
    /\ \E e \in hreqs'[h] : e.kind = kind
    /\ ~\E e \in hreqs[h] : e.kind = kind
\* h answers in this step, its GET of this kind having settled not-ok
FailsOn(h, pos, kind) ==
    /\ Leaves(h, pos)
    /\ out' # NoResp
    /\ Settled(out'.fetched, kind, {"notok"})

\* h answers in this step, its GET of this kind having failed: the analyzer was
\* not reached (fetch threw) or answered not-ok
FailsToGet(h, pos, kind) ==
    /\ Leaves(h, pos)
    /\ out' # NoResp
    /\ Settled(out'.fetched, kind, {"throw", "notok"})

\* C6: when the status GET settles with a non-success response, the status check
\* answers 502, has issued no result GET, has written nothing, and the store is
\* as it was.
C6_StatusFailureLeavesStore ==
    [][\A h \in Handlers :
          FailsOn(h, "statusGet", "status")
          => /\ out'.code = 502
             /\ out'.written = 0
             /\ hwrites[h] = 0
             /\ analyses' = analyses
             /\ ~\E e \in out'.fetched : e.kind = "result"]_vars
\* a 502 after a not-ok status GET
C6_Witness ==
    /\ StatusOut
    /\ out.code = 502
    /\ Settled(out.fetched, "status", {"notok"})

\* the columns the status update writes
MergedFields == {"status", "progress", "message", "current_step"}

\* C7: the status update never turns a stored non-null status, progress, message
\* or current_step into null, whatever the analyzer answers and however
\* concurrent status checks interleave.
C7_MergeNeverRegresses ==
    [][\A h \in Handlers :
          Leaves(h, "mergeWrite")
          => \A f \in MergedFields :
                Row(hreq[h].id)[f] # Null => analyses'[hreq[h].id][f] # Null]_vars

\* C8: the result GET is issued by the step that commits the status update (the
\* merged columns are stored when it goes out); while it is in flight the row
\* keeps the merged status `completed` with result and completedAt null; and
\* when it fails (the analyzer is not reached, or answers not-ok) the check
\* answers 502 having made that one write, the store left as it was.
C8_MergeCommittedBeforeResultFetch ==
    [][\A h \in Handlers :
          /\ Issues(h, "result")
             => /\ Leaves(h, "mergeWrite")
                /\ hwrites'[h] = 1
                /\ \A f \in MergedFields : analyses'[hreq[h].id][f] = upd[h][f]
          /\ hpc[h] = "resultGet"
             => /\ analyses' = analyses
                /\ Row(hreq[h].id).status = "completed"
                /\ Row(hreq[h].id).result = Null
                /\ Row(hreq[h].id).completedAt = Null
          /\ FailsToGet(h, "resultGet", "result")
             => /\ out'.code = 502
                /\ out'.written = 1]_vars
\* C9: a caller whose email is not the workspace's gets 404 from both
\* GET /workspaces/{id} and GET /workspaces/{id}/status, and the status check
\* has fetched nothing and written nothing.
C9_OwnershipOnEveryRead ==
    ( /\ out # NoResp
      /\ out.handler \in Handlers \cup {"get"}
      /\ PassedChecks(out.req)
      /\ HasWorkspace(out.req.id)
      /\ workspaces[out.req.id].email # out.req.session )
    => /\ out.code = 404
       /\ out.fetched = {}
       /\ out.written = 0

\* C10: when the analyzer submission fails (fetch throws, or the analyzer answers
\* not-ok), create answers 201, the workspace is stored and it has no Analysis.
C10_FailedSubmissionLeavesNoAnalysis ==
    ( /\ out # NoResp
      /\ out.handler = "create"
      /\ Settled(out.fetched, "analyze", {"throw", "notok"}) )
    => /\ out.code = 201
       /\ HasWorkspace(out.body.workspace_id)
       /\ ~HasAnalysis(out.body.workspace_id)
       /\ out.body.analysis = NoAnalysis

\* C11: every Analysis row is stored under its workspaceId (the unique key) and
\* that workspace exists; rows are never deleted; the only step that adds a row
\* is create's analysis.create, for the workspace it has just created, which had
\* none; and no step of a status check adds or removes a row.
C11_OneAnalysisPerWorkspace ==
    [][/\ \A id \in DOMAIN analyses' :
             id \in DOMAIN workspaces' /\ analyses'[id].workspaceId = id
       /\ DOMAIN analyses \subseteq DOMAIN analyses'
       /\ DOMAIN analyses' # DOMAIN analyses
             => \E id \in creating :
                   /\ creating' = creating \ {id}
                   /\ id \notin DOMAIN analyses
                   /\ DOMAIN analyses' = DOMAIN analyses \cup {id}
       /\ \A h \in Handlers :
             hpc'[h] # hpc[h] => DOMAIN analyses' = DOMAIN analyses]_vars
\* a workspace with its one Analysis, updated by a status check
C11_Witness ==
    \E id \in DOMAIN analyses :
        /\ id \in DOMAIN workspaces
        /\ \E h \in Handlers : hreq[h].id = id /\ hwrites[h] > 0

\* the page resumes, in this step, the code awaiting a response of this kind
Handles(to) == inbox.to = to /\ inbox' = NoMessage
\* the status response being handled is a successful one / a failure
PollOk == inbox.res.kind = "resp" /\ inbox.res.code = 200
PollFailed == inbox.res.kind = "throw" \/ inbox.res.code # 200
\* the two terminal signals of a successful status response
SaysCompleted(data) == "status" \in DOMAIN data /\ data.status = "completed"
HasResultDoc(data) ==
    /\ "analysis" \in DOMAIN data
    /\ data.analysis # NoAnalysis
    /\ data.analysis.result \notin {Null, Undefined}
\* no interval timer is registered and the handle is null
Released(ts, ref) == ts = {} /\ ref = NoTimer

\* C12: at most one interval timer is registered at any time, and while one is
\* registered no step registers another (a pollStatus call is a no-op then),
\* whatever the order of loads, ticks, responses and the unmount.
C12_OneTimer ==
    [][/\ Cardinality(timers') <= 1
       /\ timers # {} => timers' \subseteq timers]_vars
\* a timer is registered, a tick awaits its response, and a fetchWorkspace
\* response is about to call pollStatus again
C12_Witness ==
    /\ timers = {pollingRef}
    /\ polling > 0
    /\ inbox.to = "load"
    /\ inbox.res.kind = "resp"
    /\ inbox.res.code = 200
    /\ NeedsPolling(inbox.res.body.workspace)

\* C13: a callback handling a successful status response stops the loop (timer
\* cleared, handle null) when the response says `completed` or carries an
\* analysis with a result, either one alone, and leaves the timer and the handle
\* alone when it has neither.
C13_TerminalSignals ==
    [][(Handles("poll") /\ PollOk)
       => IF SaysCompleted(inbox.res.body) \/ HasResultDoc(inbox.res.body)
          THEN Released(timers', pollingRef')
          ELSE timers' = timers /\ pollingRef' = pollingRef]_vars
\* the loop ended on a response that carried a result
C13_Witness ==
    /\ workspace = [analysis |-> [status |-> "completed", result |-> Doc("summary:A")]]
    /\ Released(timers, pollingRef)
    /\ nextTimer > 1
    /\ error = ""

\* C14: a callback whose status call failed (not-ok response, or fetch threw)
\* clears the timer and nulls the handle, and the view, which shows the error
\* only while it is mounted, has a non-empty error then; a status request is
\* only ever issued while a timer is registered; and a timer is only registered
\* by pollStatus, called when a fetchWorkspace response is handled.
C14_FailFast ==
    [][/\ (Handles("poll") /\ PollFailed)
          => /\ Released(timers', pollingRef')
             /\ view = "mounted" => error' # ""
       /\ polling' > polling => timers # {}
       /\ ~(timers' \subseteq timers) => Handles("load")]_vars
\* the loop was started and ended on a failed status call, the view mounted
C14_Witness ==
    /\ view = "mounted"
    /\ error \in {"Polling failed", "Failed to fetch status", "No analysis record",
                   "Failed to fetch status from analyzer"}
    /\ Released(timers, pollingRef)
    /\ nextTimer > 1

\* C15: after a terminal tick, after an error tick and once the view is torn
\* down, no interval timer is registered and the handle is null.
C15_TimerReleasedOnEveryExit ==
    [][/\ (Handles("poll")
           /\ (PollFailed \/ SaysCompleted(inbox.res.body) \/ HasResultDoc(inbox.res.body)))
          => Released(timers', pollingRef')
       /\ view' = "unmounted" => Released(timers', pollingRef')]_vars

\* the columns of the Analysis that the workspace summary repeats
SummaryColumns == {"status", "progress", "message", "current_step", "status_url",
                   "result_url", "completedAt", "result"}

\* C16: every step of GET /workspaces/{id} leaves the store and every status
\* check as they were; its answer has made no analyzer request and no write;
\* and a 200 carries a null summary exactly when the workspace has no Analysis,
\* and otherwise the stored columns, with hasResult true exactly when result is
\* set.
C16_GetWorkspaceIsPureRead ==
    [][/\ getVars' # getVars => UNCHANGED <<storeVars, now, createVars, statusVars>>
       /\ (out' # NoResp /\ out'.handler = "get")
             => /\ UNCHANGED <<storeVars, now, createVars, statusVars>>
                /\ out'.fetched = {}
                /\ out'.written = 0
                /\ out'.code = 200
                      => LET id == out'.req.id
                             sum == out'.body.analysis
                         IN /\ (sum = NoAnalysis) <=> ~HasAnalysis(id)
                            /\ HasAnalysis(id)
                                  => /\ \A c \in SummaryColumns : sum[c] = Row(id)[c]
                                     /\ sum.hasResult <=> (Row(id).result # Null)]_vars
\* GET /workspaces/{id} answered with the summary of an Analysis that has a result
C16_Witness ==
    /\ out # NoResp
    /\ out.handler = "get"
    /\ out.code = 200
    /\ out.body.analysis # NoAnalysis
    /\ out.body.analysis.hasResult
    /\ out.body.analysis.result = Row(out.req.id).result

\* create is answering, the analyzer having answered its POST (any HTTP status)
CreateAnswered ==
    /\ out # NoResp
    /\ out.handler = "create"
    /\ \E e \in out.fetched : "body" \in DOMAIN e
\* what the analyzer answered
AnalyzerSaid == (CHOOSE e \in out.fetched : "body" \in DOMAIN e).body
\* the text begins with this prefix
HasPrefix(u, pre) == Len(u) >= Len(pre) /\ SubSeq(u, 1, Len(pre)) = pre
IsAbsoluteUrl(u) == HasPrefix(u, "http://") \/ HasPrefix(u, "https://")
UrlColumns == {"status_url", "result_url"}

\* C17: for status_url and result_url alike, in the Analysis that create stores
\* an absent (or null) URL of the analyzer's answer is stored as null, a
\* relative path as the analyzer base followed by the path, an absolute URL
\* unchanged; so every stored URL is null or absolute.
C17_UrlNormalization ==
    (CreateAnswered /\ AnalyzerSaid # NonJson /\ HasAnalysis(out.body.workspace_id))
    => \A c \in UrlColumns :
          LET u == AnalyzerSaid[c]
              stored == Row(out.body.workspace_id)[c]
          IN /\ u \in {Undefined, Null} => stored = Null
             /\ (u \notin {Undefined, Null} /\ HasPrefix(u, "/"))
                   => stored = "http://0.0.0.0:8000" \o u
             /\ (u \notin {Undefined, Null} /\ IsAbsoluteUrl(u)) => stored = u
             /\ stored = Null \/ IsAbsoluteUrl(stored)
             /\ out.body.analysis[c] = stored
\* a relative status_url stored under the analyzer base
C17_Witness ==
    /\ CreateAnswered
    /\ AnalyzerSaid # NonJson
    /\ AnalyzerSaid.status_url = "/api/status/ext1"
    /\ Row(out.body.workspace_id).status_url = "http://0.0.0.0:8000/api/status/ext1"

\* C18: whatever the analyzer answers to submit, create still answers 201; when
\* the answer is no JSON an Analysis is stored, with status `pending` and null
\* external id, status_url, result_url and result; and every Analysis stored
\* after a JSON answer without a status has status `pending`.
C18_MalformedSubmitFallsBack ==
    CreateAnswered
    => /\ out.code = 201
       /\ AnalyzerSaid = NonJson
             => /\ HasAnalysis(out.body.workspace_id)
                /\ LET a == Row(out.body.workspace_id)
                   IN /\ a.status = "pending"
                      /\ a.external_workspace_id = Null
                      /\ a.status_url = Null
                      /\ a.result_url = Null
                      /\ a.result = Null
       /\ ( /\ AnalyzerSaid # NonJson
            /\ AnalyzerSaid.status = Undefined
            /\ HasAnalysis(out.body.workspace_id) )
             => Row(out.body.workspace_id).status = "pending"
\* created with defaults after an answer that was no JSON
C18_Witness ==
    /\ CreateAnswered
    /\ AnalyzerSaid = NonJson
    /\ out.code = 201
    /\ Row(out.body.workspace_id).status = "pending"

\* a response leaves in this step
Answers == out' # NoResp
\* the text is missing, empty or all blanks
IsBlank(t) == t = Undefined \/ \A i \in DOMAIN Units(t) : Units(t)[i] \in WhiteSpace
\* the repository URL is missing, no text, or does not name github.com
BadRepo(t) == t = Undefined \/ ~IsString(t) \/ ~Includes(t, "github.com")
\* the code the claim gives a create request (0: the request is acceptable)
CreateErrorOf(r) ==
    IF r.method # "POST" THEN 405
    ELSE IF r.session = Null THEN 401
    ELSE IF IsBlank(r.name) \/ ~IsString(r.name) \/ BadRepo(r.github_repository) THEN 400
    ELSE 0
\* the step has no effect besides the response
NoSideEffect ==
    /\ UNCHANGED <<storeVars, now, createVars, statusVars, getVars>>
    /\ out'.fetched = {}
    /\ out'.written = 0

\* C19: a create request that is not POST, has no identity, a blank or
\* malformed name or a missing or malformed repository URL (no text, or not
\* naming github.com) is answered 405, 401, 400, 400 in the
\* step that receives it, creating no Workspace and no Analysis and leaving no
\* analyzer request pending, and only acceptable requests create a Workspace;
\* a status check with a missing or repeated id (400) or, the id being usable,
\* no identity (401) is answered in the step that receives it, with no analyzer
\* request and no write.
C19_RejectedRequestsHaveNoEffect ==
    [][/\ (Answers /\ out'.handler = "create" /\ "method" \in DOMAIN out'.req)
          => /\ out'.code = CreateErrorOf(out'.req)
             /\ out'.code # 0
             /\ NoSideEffect
       /\ \A id \in DOMAIN workspaces' \ DOMAIN workspaces :
             /\ workspaces'[id].email # Null
             /\ ~IsBlank(workspaces'[id].name)
             /\ ~BadRepo(workspaces'[id].github_repository)
       /\ (Answers /\ out'.handler \in Handlers /\ ~PassedChecks(out'.req))
          => /\ out'.code = IF out'.req.id = Undefined \/ IsArray(out'.req.id)
                            THEN 400 ELSE 401
             /\ NoSideEffect
       /\ \A h \in Handlers :
             (hpc[h] = "idle" /\ hpc'[h] # "idle") => PassedChecks(hreq'[h])]_vars
\* C20: the status check issues the result GET in exactly the invocations whose
\* merged status, the one its status update stores, is `completed`; in the
\* others no result GET goes out and the result stays as it was.
C20_ResultGetIffMergedCompleted ==
    [][\A h \in Handlers :
          Leaves(h, "mergeWrite")
          => /\ Issues(h, "result") <=> (upd[h].status = "completed")
             /\ ~Issues(h, "result")
                   => analyses'[hreq[h].id].result = Row(hreq[h].id).result]_vars

\* the row is in the state a failed result GET leaves: `completed`, no result,
\* and a status URL or an external id to poll with
AwaitsResult(a) ==
    /\ a.status = "completed"
    /\ a.result = Null
    /\ (a.status_url # Null \/ a.external_workspace_id # Null)

\* C21: a status check that loads a row with status `completed` and result null
\* does not answer from the store but issues the status GET; and a check that
\* went on to store the result answers 200 `completed` with the row as stored,
\* whose result and completedAt are set and whose status is `completed`.
C21_RecoversAfterFailedResult ==
    [][\A h \in Handlers :
          /\ (Leaves(h, "load") /\ HasAnalysis(hreq[h].id) /\ AwaitsResult(Row(hreq[h].id)))
                => /\ hpc'[h] = "statusGet"
                   /\ Issues(h, "status")
                   /\ out' = NoResp
          /\ (Leaves(h, "reload") /\ hwrites[h] = 2)
                => /\ out'.code = 200
                   /\ out'.body.status = "completed"
                   /\ out'.body.analysis = Row(hreq[h].id)
                   /\ Row(hreq[h].id).result # Null
                   /\ Row(hreq[h].id).completedAt # Null
                   /\ Row(hreq[h].id).status = "completed"
                   /\ Settled(out'.fetched, "status", {"ok"})
                   /\ Settled(out'.fetched, "result", {"ok"})]_vars
\* a check loaded the `completed` row without result and is polling the analyzer
C21_Witness ==
    \E h \in Handlers :
        /\ hpc[h] = "statusGet"
        /\ AwaitsResult(snap[h])
        /\ AwaitsResult(Row(hreq[h].id))

\* C22: a status check that loads a row with result null, no status URL and no
\* external id answers 200 with the stored status, having issued no analyzer
\* request and made no write, the store left as it was.
C22_NothingToPollAnswersStored ==
    [][\A h \in Handlers :
          ( /\ Leaves(h, "load")
            /\ HasAnalysis(hreq[h].id)
            /\ Row(hreq[h].id).result = Null
            /\ Row(hreq[h].id).status_url = Null
            /\ Row(hreq[h].id).external_workspace_id = Null )
          => /\ out' # NoResp
             /\ out'.code = 200
             /\ out'.body.status = Row(hreq[h].id).status
             /\ out'.fetched = {}
             /\ out'.written = 0
             /\ hpc'[h] = "idle"
             /\ UNCHANGED <<storeVars, now>>]_vars
\* the URL of the GET of this kind that h issues in this step
IssuedUrl(h, kind) == (CHOOSE e \in hreqs'[h] : e.kind = kind).url

\* C23: a status GET goes to the stored status_url, or else to
\* <base>/api/status/<stored external id>; a result GET goes to the stored
\* result_url, or else to <base>/api/result/<id>, the id being the stored
\* external id or else the workspace_id of the status response (as a template
\* literal prints it), and one of the two is present.
C23_EffectiveUrls ==
    [][\A h \in Handlers :
          LET a == Row(hreq[h].id)
          IN /\ Issues(h, "status")
                  => IssuedUrl(h, "status") =
                        IF a.status_url # Null THEN a.status_url
                        ELSE "http://0.0.0.0:8000/api/status/" \o a.external_workspace_id
             /\ Issues(h, "result")
                  => \/ a.result_url # Null /\ IssuedUrl(h, "result") = a.result_url
                     \/ /\ a.result_url = Null
                        /\ a.external_workspace_id # Null
                        /\ IssuedUrl(h, "result") =
                              "http://0.0.0.0:8000/api/result/" \o a.external_workspace_id
                     \/ /\ a.result_url = Null
                        /\ a.external_workspace_id = Null
                        /\ sdata[h].workspace_id \notin {Null, Undefined}
                        /\ IssuedUrl(h, "result") =
                              "http://0.0.0.0:8000/api/result/"
                                 \o Template(sdata[h].workspace_id)]_vars

\* C24: a status check that answers after its status update alone (no result
\* GET) answers 200 with the status that update stored, which is also the
\* status of the analysis it returns.
C24_ReturnsMergedStatus ==
    [][\A h \in Handlers :
          (Leaves(h, "reload") /\ hwrites[h] = 1)
          => /\ out'.code = 200
             /\ out'.body.analysis = Row(hreq[h].id)
             /\ out'.body.status = Row(hreq[h].id).status]_vars

\* C27: once a row has a result, no step changes its status, progress, message
\* or current_step.
C27_NoMergeAfterResult ==
    [][\A id \in DOMAIN analyses :
          Row(id).result # Null
          => \A f \in MergedFields : analyses'[id][f] = Row(id)[f]]_vars

\* C28: the page never has two status requests in flight.
C28_OneRequestInFlight == polling <= 1

\* the poller was started and has stopped
Stopped == nextTimer > 1 /\ Released(timers, pollingRef)

\* C29: once the poller has stopped (by a terminal or an error tick, the view
\* still on screen), handling the response of a tick that was still in flight
\* changes neither the view's workspace, nor its error, nor its loading flag.
C29_LateResponsesIgnored ==
    [][(Stopped /\ view = "mounted" /\ Handles("poll"))
       => UNCHANGED <<workspace, error, loading>>]_vars

\* the workspace the page shows
PageRow == Row(PageRequest.id)
\* the poller is running
Active == timers # {}

\* C25: while the workspace has no Analysis, handling a status response neither
\* sets the view's error nor stops the poller.
C25_MissingAnalysisIsNotAnError ==
    [][(Handles("poll") /\ HasWorkspace(PageRequest.id) /\ ~HasAnalysis(PageRequest.id))
       => error' = "" /\ timers' = timers]_vars

\* C26: for an Analysis the submission gave a job (a status URL or an external
\* id), an active poller eventually stops with the view holding an analysis
\* that has a result, the store holding status `completed`, result and
\* completedAt, when the analyzer is healthy and its job finishes.
C26_PollerReachesResult ==
    (Active /\ polling = 0 /\ HasAnalysis(PageRequest.id) /\ ~NothingToPoll(PageRow))
    ~> ( /\ ~Active
         /\ workspace # NoWorkspace
         /\ workspace.analysis # NoAnalysis
         /\ workspace.analysis.result # Null
         /\ PageRow.status = "completed"
         /\ PageRow.result # Null
         /\ PageRow.completedAt # Null )

\* C30: every poller that was started eventually stops.
C30_PollerStops == Active ~> ~Active

====
